---- MODULE Spec2Model ----
(***************************************************************************)
(* Model of handouts/handout_01.ipynb: the fixed-step Runge-Kutta-Fehlberg *)
(* integrator rk45, the catalysis right-hand side f_catalysis and the      *)
(* Monte Carlo loop plot_samples.                                          *)
(*                                                                         *)
(* Real arithmetic.  The notebook computes in double precision.  The model *)
(* computes in the residue field Z/PZ: every rational coefficient of the   *)
(* tableau (the fractions given in the source comments) has an exact image *)
(* in it, and every identity of exact arithmetic holds in it.  What the    *)
(* model does not show is floating-point rounding and overflow.  A single  *)
(* extra value NonFinite stands for nan and +-inf; it absorbs + and *.     *)
(***************************************************************************)
EXTENDS Integers, Sequences, FiniteSets, TLC

\* ------------------------------------------------------------ bounds
MaxGridLen == 3      \* rk45 called directly: time grids of 0..MaxGridLen points
MaxT == 1            \* ... whose points are drawn from 0..MaxT
MaxSamples == 2      \* plot_samples: num_samples ranges over -1..MaxSamples
MaxDim == 3          \* state vectors and results of f have at most MaxDim entries
MaxSeed == 1         \* seeds of the random stream: 0..MaxSeed
MaxFaultAt == 6      \* f may fail at its 1st..MaxFaultAt-th evaluation of a call

\* ------------------------------------------------------------ numbers
P == 10007
NonFinite == P

IsFinite(x) == x # NonFinite

\* a + b, a - b, a * b: an operand that is not finite makes the result not finite.
\* (x and z name the operands, so that each operand is evaluated once.)
FAdd(a, b) ==
    CHOOSE r \in {IF x = NonFinite \/ z = NonFinite THEN NonFinite ELSE (x + z) % P :
                    x \in {a}, z \in {b}} : TRUE

FSub(a, b) ==
    CHOOSE r \in {IF x = NonFinite \/ z = NonFinite THEN NonFinite ELSE (x - z) % P :
                    x \in {a}, z \in {b}} : TRUE

FMul(a, b) ==
    CHOOSE r \in {IF x = NonFinite \/ z = NonFinite THEN NonFinite ELSE (x * z) % P :
                    x \in {a}, z \in {b}} : TRUE

FNeg(a) == IF a = NonFinite THEN NonFinite ELSE (0 - a) % P


RECURSIVE Pow(_, _)
Pow(g, e) ==
    IF e = 0 THEN 1
    ELSE IF e % 2 = 0 THEN Pow((g * g) % P, e \div 2)
    ELSE (g * Pow((g * g) % P, e \div 2)) % P

\* 1/b: b^(P-2), by Fermat
Inv(b) == Pow(b, P - 2)

\* the real number a/b
Frac(a, b) == ((a % P) * Inv(b % P)) % P

\* np.exp: a fixed function of its argument that is nowhere zero
Exp(x) == IF x = NonFinite THEN NonFinite ELSE Pow(5, x)

\* ------------------------------------------------------------ arrays
\* A NumPy value: nd = 0 a scalar (v has one entry), nd = 1 a vector.
Scalar(x) == [nd |-> 0, v |-> <<x>>]

Vec(s) == [nd |-> 1, v |-> s]

\* the value of an expression whose operands cannot be broadcast together
ShapeError == [nd |-> 2, v |-> <<>>]

Max(a, b) == IF a >= b THEN a ELSE b

BroadcastableStrict(la, lb) == la = lb

\* whether operands of la and of lb entries can be broadcast together
Broadcastable(la, lb) == la = lb \/ la = 1 \/ lb = 1

At(a, j) == IF Len(a.v) = 1 THEN a.v[1] ELSE a.v[j]

\* The number of entries of x0 + x1 + .. + xm, evaluated left to right, from the
\* numbers of entries l of x0 and ls of x1..xm; -1 if some + cannot broadcast.
\* (m names the entries of the sum so far, rest those of the operands still to add.)
RECURSIVE SumLen(_, _)
SumLen(l, ls) ==
    IF ls = <<>> THEN l
    ELSE IF ~Broadcastable(l, Head(ls)) THEN -1
    ELSE CHOOSE r \in {SumLen(m, rest) : m \in {Max(l, Head(ls))}, rest \in {Tail(ls)}} : TRUE

\* cs[m] * ks[m][j] + .. + cs[M] * ks[M][j]
RECURSIVE Dot(_, _, _, _)
Dot(cs, ks, j, m) ==
    IF m > Len(cs) THEN 0
    ELSE FAdd(FMul(cs[m], At(ks[m], j)), Dot(cs, ks, j, m + 1))

\* yi + cs[1] * ks[1] + .. + cs[M] * ks[M] with NumPy broadcasting
LinComb(yi, cs, ks) ==
    LET len == SumLen(Len(yi.v), [m \in 1..Len(ks) |-> Len(ks[m].v)])
    IN IF len = -1 THEN ShapeError
       ELSE Vec([j \in 1..len |-> FAdd(At(yi, j), Dot(cs, ks, j, 1))])

\* c * a for a float c
SMul(c, a) == [nd |-> a.nd, v |-> [j \in 1..Len(a.v) |-> FMul(c, a.v[j])]]

\* ------------------------------------------------------------ rk45: tableau
c20 == Frac(1, 4)
c30 == Frac(3, 8)
c40 == Frac(12, 13)
c60 == Frac(1, 2)

c21 == Frac(1, 4)
c31 == Frac(3, 32)
c32 == Frac(9, 32)
c41 == Frac(1932, 2197)
c42 == Frac(-7200, 2197)
c43 == Frac(7296, 2197)
c51 == Frac(439, 216)
c52 == Frac(-8, 1)
c53 == Frac(3680, 513)
c54 == Frac(-845, 4104)
c61 == Frac(-8, 27)
c62 == Frac(2, 1)
c63 == Frac(-3544, 2565)
c64 == Frac(1859, 4104)
c65 == Frac(-11, 40)

a1 == Frac(25, 216)
a3 == Frac(1408, 2565)
a4 == Frac(2197, 4104)
a5 == Frac(-1, 5)

b1 == Frac(16, 135)
b3 == Frac(6656, 12825)
b4 == Frac(28561, 56430)
b5 == Frac(-9, 50)
b6 == Frac(2, 55)

\* ------------------------------------------------------------ program constants
NumPoints == 100                       \* np.linspace(0, 180, 100)
TEnd == 180
InitialState == <<500, 0, 0, 0, 0, 0>>
OneOver180 == Frac(1, 180)

DefaultMu == <<Frac(1359, 1000), Frac(1657, 1000), Frac(1347, 1000),
               Frac(-162, 1000), Frac(-1009, 1000)>>
DefaultSig == <<Frac(55, 1000), Frac(86, 1000), Frac(118, 1000),
                Frac(167, 1000), Frac(368, 1000)>>

\* the low end of every slider of interactive(plot_samples, ...)
SliderMu == <<Frac(-2, 1), Frac(-2, 1), Frac(-2, 1), Frac(-2, 1), Frac(-2, 1)>>
SliderSig == <<Frac(2, 100), Frac(2, 100), Frac(2, 100), Frac(2, 100), Frac(2, 100)>>

VARIABLES
    mode,          \* "direct": the caller calls rk45; "propagate": it calls plot_samples
    fault,         \* how the right-hand side misbehaves, if it does
    f, y0, t, args,                  \* rk45: parameters
    n, y, i, h, k, y5,               \* rk45: locals (k = <<k1, ..>> of the current step)
    ret, returned,                   \* the value rk45 returned, once it has
    mu, sig, num_samples,            \* plot_samples: parameters
    sample, xi, kappa, ensemble,     \* plot_samples: locals; ensemble = the lines on ax
    seed, rng,                       \* the global random stream: its seed and state
    fCalls, rkCalls, draws,          \* evaluations of f in this rk45 call; calls; draws
    err, pc,                         \* the exception raised ("none"), the position
    run, prevEnsemble,               \* 2 when plot_samples is called again, and the
                                     \* ensemble of the first call
    twin                             \* y, k and y5 of a second run of the same rk45
                                     \* call, in which f returns another value at the
                                     \* sixth evaluation of every step

vars == <<mode, fault, f, y0, t, args, n, y, i, h, k, y5, ret, returned,
          mu, sig, num_samples, sample, xi, kappa, ensemble, seed, rng,
          fCalls, rkCalls, draws, err, pc, run, prevEnsemble, twin>>

\* ------------------------------------------------------------ right-hand sides
f_catalysisNoN2(yy, tt, kap) ==
    Vec(<<FNeg(FMul(kap[1], yy.v[1])),
          FSub(FMul(kap[1], yy.v[1]),
               FMul(FAdd(FAdd(kap[2], kap[4]), kap[5]), yy.v[2])),
          FSub(FMul(kap[2], yy.v[2]), FMul(kap[3], yy.v[3])),
          0,
          FMul(kap[4], yy.v[2]),
          FMul(kap[5], yy.v[2])>>)

f_catalysis(yy, tt, kap) ==
    Vec(<<FNeg(FMul(kap[1], yy.v[1])),
          FSub(FMul(kap[1], yy.v[1]),
               FMul(FAdd(FAdd(kap[2], kap[4]), kap[5]), yy.v[2])),
          FSub(FMul(kap[2], yy.v[2]), FMul(kap[3], yy.v[3])),
          FMul(kap[3], yy.v[3]),
          FMul(kap[4], yy.v[2]),
          FMul(kap[5], yy.v[2])>>)

\* Any other right-hand side a caller passes: dx/dt = t - x[0] in every component,
\* returned as a scalar (shape 0) or as a vector of `shape` entries.
f_env(yy, tt, shape) ==
    IF shape = 0 THEN Scalar(FSub(tt, yy.v[1]))
    ELSE Vec([c \in 1..shape |-> FSub(tt, yy.v[1])])

\* f(yy, tt, *args) when it returns
Apply(ff, yy, tt, aa) ==
    IF ff.kind = "catalysis" THEN f_catalysis(yy, tt, aa[1])
    ELSE f_env(yy, tt, ff.shape)

\* the fault strikes at the c-th evaluation of f in the r-th call of rk45
Strikes(kind, r, c) == fault.kind = kind /\ fault.sample = r /\ fault.at = c

Poison(a) == [a EXCEPT !.v[1] = NonFinite]

\* another value of the same shape: every entry moved by one
Perturb(a) == [a EXCEPT !.v = [j \in 1..Len(a.v) |-> FAdd(a.v[j], 1)]]

\* ------------------------------------------------------------ rk45
InitTrajectoryZeros(yy0, nn) == [j \in 1..nn |-> [c \in 1..Len(yy0) |-> 0]]

\* y = np.array( [ y0 ] * n )
InitTrajectory(yy0, nn) == [j \in 1..nn |-> yy0]

StepLoopAtLeastOnce(ii, nn) == ii < nn - 1 \/ (ii = 0 /\ nn = 1)

StepLoopStopsEarly(ii, nn) == ii < nn - 2

\* for i in xrange( n - 1 )
StepLoopContinues(ii, nn) == ii < nn - 1

StepSizeBackward(tt, ii) == FSub(tt[ii + 1], tt[ii + 2])

\* h = t[i+1] - t[i]
StepSize(tt, ii) == FSub(tt[ii + 2], tt[ii + 1])

\* the state argument of the s-th evaluation of f in a step
StageArg(s, yi, kk) ==
    CASE s = 1 -> yi
      [] s = 2 -> LinComb(yi, <<c21>>, kk)
      [] s = 3 -> LinComb(yi, <<c31, c32>>, kk)
      [] s = 4 -> LinComb(yi, <<c41, c42, c43>>, kk)
      [] s = 5 -> LinComb(yi, <<c51, c52, c53, c54>>, kk)
      [] s = 6 -> LinComb(yi, <<c61, c62, c63, c64, c65>>, kk)

\* the time argument of the s-th evaluation of f in a step
StageTime(s, ti, hh) ==
    CASE s = 1 -> ti
      [] s = 2 -> FAdd(ti, FMul(c20, hh))
      [] s = 3 -> FAdd(ti, FMul(c30, hh))
      [] s = 4 -> FAdd(ti, FMul(c40, hh))
      [] s = 5 -> FAdd(ti, hh)
      [] s = 6 -> FAdd(ti, FMul(c60, hh))

Order4FromFifth(yi, kk) ==
    LinComb(yi, <<b1, b3, b4, b5, b6>>, <<kk[1], kk[3], kk[4], kk[5], kk[6]>>)

\* y[i] + a1 * k1 + a3 * k3 + a4 * k4 + a5 * k5
Order4(yi, kk) == LinComb(yi, <<a1, a3, a4, a5>>, <<kk[1], kk[3], kk[4], kk[5]>>)

\* y[i] + b1 * k1 + b3 * k3 + b4 * k4 + b5 * k5 + b6 * k6
Order5(yi, kk) ==
    LinComb(yi, <<b1, b3, b4, b5, b6>>, <<kk[1], kk[3], kk[4], kk[5], kk[6]>>)

\* whether the value a can be stored into a row of d entries
FitsRow(a, d) == a # ShapeError /\ (Len(a.v) = d \/ Len(a.v) = 1)

StoreRowFinite(a, d) ==
    [c \in 1..d |-> IF At(a, c) = NonFinite THEN 0 ELSE At(a, c)]

\* y[i+1] = a: the d entries stored, a broadcast if it has one entry
StoreRow(a, d) == [c \in 1..d |-> At(a, c)]

UnwindRetry == IF mode = "propagate" THEN "ps_loop" ELSE "raised"

\* where control goes when an exception leaves rk45: neither rk45 nor plot_samples
\* has a try statement, so it leaves the caller too
Unwind == "raised"

\* n = len( t ); y = np.array( [ y0 ] * n ); the loop starts at i = 0
RkEntry ==
    /\ pc = "rk_entry"
    /\ n' = Len(t)
    /\ y' = InitTrajectory(y0, Len(t))
    /\ twin' = [twin EXCEPT !.y = InitTrajectory(y0, Len(t))]
    /\ i' = 0
    /\ pc' = "rk_loop"
    /\ UNCHANGED <<mode, fault, f, y0, t, args, h, k, y5, ret, returned, mu, sig,
                   num_samples, sample, xi, kappa, ensemble, seed, rng, fCalls,
                   rkCalls, draws, err, run, prevEnsemble>>

\* the head of the loop: the next step, with its step size, or the return statement
RkLoop ==
    /\ pc = "rk_loop"
    /\ IF StepLoopContinues(i, n)
       THEN IF i + 2 <= Len(t)
            THEN /\ h' = StepSize(t, i)
                 /\ k' = <<>>
                 /\ twin' = [twin EXCEPT !.k = <<>>]
                 /\ pc' = "rk_stage"
                 /\ err' = err
            ELSE /\ err' = "IndexError"
                 /\ pc' = Unwind
                 /\ UNCHANGED <<h, k, twin>>
       ELSE /\ pc' = "rk_return"
            /\ UNCHANGED <<h, k, err, twin>>
    /\ UNCHANGED <<mode, fault, f, y0, t, args, n, y, i, y5, ret, returned, mu, sig,
                   num_samples, sample, xi, kappa, ensemble, seed, rng, fCalls,
                   rkCalls, draws, run, prevEnsemble>>

\* What the s-th evaluation of f in a step returns on (arg, targ, *args), when it
\* returns: the value of f, not finite in its first entry if the fault strikes; in
\* the second run (other) another value at the sixth evaluation.
Returned(s, arg, targ, other) ==
    IF arg = ShapeError THEN ShapeError
    ELSE LET out == IF other /\ s = 6 THEN Perturb(Apply(f, arg, targ, args))
                    ELSE Apply(f, arg, targ, args)
         IN IF Strikes("nan", rkCalls, fCalls + 1) THEN Poison(out) ELSE out

\* k_s = h * f( <state argument>, <time argument>, *args ), s = 1..6.  The state
\* argument is formed first (operands that cannot be broadcast raise ValueError
\* there), then f is evaluated (it may raise, or return a non-finite value).
RkStage(s) ==
    /\ pc = "rk_stage"
    /\ Len(k) = s - 1
    /\ \E arg \in {StageArg(s, Vec(y[i + 1]), k)}, targ \in {StageTime(s, t[i + 1], h)} :
       \E out \in {Returned(s, arg, targ, FALSE)} :
          IF arg = ShapeError
          THEN /\ err' = "ValueError"
               /\ pc' = Unwind
               /\ UNCHANGED <<k, fCalls, twin>>
          ELSE /\ fCalls' = fCalls + 1
               /\ IF Strikes("raise", rkCalls, fCalls + 1)
                  THEN /\ err' = "FError"
                       /\ pc' = Unwind
                       /\ UNCHANGED <<k, twin>>
                  ELSE /\ k' = Append(k, SMul(h, out))
                       /\ \E argT \in {StageArg(s, Vec(twin.y[i + 1]), twin.k)} :
                          \E outT \in {Returned(s, argT, targ, TRUE)} :
                             twin' = [twin EXCEPT !.k = Append(@, SMul(h, outT))]
                       /\ pc' = IF s = 6 THEN "rk_update" ELSE "rk_stage"
                       /\ err' = err
    /\ UNCHANGED <<mode, fault, f, y0, t, args, n, y, i, h, y5, ret, returned, mu, sig,
                   num_samples, sample, xi, kappa, ensemble, seed, rng,
                   rkCalls, draws, run, prevEnsemble>>

\* y[i+1] = <4th order estimate>; y5 = <5th order estimate>; the next i
RkUpdate ==
    /\ pc = "rk_update"
    /\ \E y4 \in {Order4(Vec(y[i + 1]), k)}, y4T \in {Order4(Vec(twin.y[i + 1]), twin.k)} :
          IF FitsRow(y4, Len(y[i + 2]))
          THEN /\ y' = [y EXCEPT ![i + 2] = StoreRow(y4, Len(y[i + 2]))]
               /\ y5' = Order5(Vec(y[i + 1]), k)
               /\ twin' = [twin EXCEPT
                             !.y[i + 2] = IF FitsRow(y4T, Len(@))
                                          THEN StoreRow(y4T, Len(@)) ELSE @,
                             !.y5 = Order5(Vec(twin.y[i + 1]), twin.k)]
               /\ i' = i + 1
               /\ pc' = "rk_loop"
               /\ err' = err
          ELSE /\ err' = "ValueError"
               /\ pc' = Unwind
               /\ UNCHANGED <<y, y5, i, twin>>
    /\ UNCHANGED <<mode, fault, f, y0, t, args, n, h, k, ret, returned, mu, sig,
                   num_samples, sample, xi, kappa, ensemble, seed, rng, fCalls,
                   rkCalls, draws, run, prevEnsemble>>

\* return y
RkReturn ==
    /\ pc = "rk_return"
    /\ ret' = y
    /\ returned' = TRUE
    /\ pc' = IF mode = "direct" THEN "done" ELSE "ps_plot"
    /\ UNCHANGED <<twin, mode, fault, f, y0, t, args, n, y, i, h, k, y5, mu, sig,
                   num_samples, sample, xi, kappa, ensemble, seed, rng, fCalls,
                   rkCalls, draws, err, run, prevEnsemble>>

\* ------------------------------------------------------------ plot_samples
\* np.linspace(a, b, num)
Linspace(a, b, num) ==
    LET step == Frac(b - a, num - 1)
    IN [j \in 1..num |-> FAdd(a, FMul(j - 1, step))]

TimeGrid == Linspace(0, TEnd, NumPoints)

\* The global random stream of numpy: a state that every draw advances, and the
\* standard normal variate the state yields.
RngNext(r) == (5 * r + 3) % 16

StdNormal(r) == ((r % 3) - 1) % P

\* norm.rvs(loc=loc, scale=scale)
NormRvs(loc, scale, r) == FAdd(loc, FMul(scale, StdNormal(r)))

\* np.exp([xi1, xi2, xi3, xi4, xi5]) / 180.
Rates(x) == [j \in 1..Len(x) |-> FMul(Exp(x[j]), OneOver180)]

NewAxesKept == ensemble

\* fig, ax = plt.subplots(...): the axes of a call start with no model line
NewAxes == <<>>

SampleLoopAtLeastOnce(s, num) == s < num \/ s = 0

SampleLoopInclusive(s, num) == s <= num

\* for i in xrange(num_samples)
SampleLoopContinues(s, num) == s < num

PlotLinesBelow(lines, traj) == <<traj>> \o lines

\* ax.plot(t, y[:, c], ...), c = 0..5: the lines of y are added after those on ax
PlotLines(lines, traj) == Append(lines, traj)

\* fig, ax = plt.subplots(...); catalysis_data.plot(...); t = np.linspace(0, 180, 100)
PsEntry ==
    /\ pc = "ps_entry"
    /\ ensemble' = NewAxes
    /\ t' = TimeGrid
    /\ sample' = 0
    /\ pc' = "ps_loop"
    /\ UNCHANGED <<twin, mode, fault, f, y0, args, n, y, i, h, k, y5, ret, returned, mu, sig,
                   num_samples, xi, kappa, seed, rng, fCalls, rkCalls, draws, err,
                   run, prevEnsemble>>

\* the head of the sample loop: the next sample, or plt.legend()
PsLoop ==
    /\ pc = "ps_loop"
    /\ IF SampleLoopContinues(sample, num_samples)
       THEN /\ xi' = <<>>
            /\ pc' = "ps_draw"
       ELSE /\ xi' = xi
            /\ pc' = "ps_legend"
    /\ UNCHANGED <<twin, mode, fault, f, y0, t, args, n, y, i, h, k, y5, ret, returned, mu,
                   sig, num_samples, sample, kappa, ensemble, seed, rng, fCalls,
                   rkCalls, draws, err, run, prevEnsemble>>

\* xi_j = norm.rvs(loc=mu_j, scale=sig_j), j = 1..5
PsDraw(j) ==
    /\ pc = "ps_draw"
    /\ Len(xi) = j - 1
    /\ xi' = Append(xi, NormRvs(mu[j], sig[j], rng))
    /\ rng' = RngNext(rng)
    /\ draws' = draws + 1
    /\ pc' = IF j = 5 THEN "ps_rates" ELSE "ps_draw"
    /\ UNCHANGED <<twin, mode, fault, f, y0, t, args, n, y, i, h, k, y5, ret, returned, mu,
                   sig, num_samples, sample, kappa, ensemble, seed, fCalls,
                   rkCalls, err, run, prevEnsemble>>

\* kappa = np.exp([xi1, xi2, xi3, xi4, xi5]) / 180.
PsRates ==
    /\ pc = "ps_rates"
    /\ kappa' = Rates(xi)
    /\ pc' = "ps_call"
    /\ UNCHANGED <<twin, mode, fault, f, y0, t, args, n, y, i, h, k, y5, ret, returned, mu,
                   sig, num_samples, sample, xi, ensemble, seed, rng, fCalls,
                   rkCalls, draws, err, run, prevEnsemble>>

\* y = rk45(f_catalysis, (500., 0., 0., 0., 0., 0.), t, args=(kappa,)): the call
PsCall ==
    /\ pc = "ps_call"
    /\ f' = [kind |-> "catalysis", shape |-> 6]
    /\ y0' = InitialState
    /\ args' = <<kappa>>
    /\ rkCalls' = rkCalls + 1
    /\ fCalls' = 0
    /\ returned' = FALSE
    /\ pc' = "rk_entry"
    /\ UNCHANGED <<twin, mode, fault, t, n, y, i, h, k, y5, ret, mu, sig, num_samples,
                   sample, xi, kappa, ensemble, seed, rng, draws, err, run,
                   prevEnsemble>>

\* ax.plot(t, y[:, 0], ...) .. ax.plot(t, y[:, 5], ...); the next sample
PsPlot ==
    /\ pc = "ps_plot"
    /\ ensemble' = PlotLines(ensemble, ret)
    /\ sample' = sample + 1
    /\ pc' = "ps_loop"
    /\ UNCHANGED <<twin, mode, fault, f, y0, t, args, n, y, i, h, k, y5, ret, returned, mu,
                   sig, num_samples, xi, kappa, seed, rng, fCalls, rkCalls, draws,
                   err, run, prevEnsemble>>

\* plt.legend(); plot_samples returns
PsLegend ==
    /\ pc = "ps_legend"
    /\ pc' = "done"
    /\ UNCHANGED <<twin, mode, fault, f, y0, t, args, n, y, i, h, k, y5, ret, returned, mu,
                   sig, num_samples, sample, xi, kappa, ensemble, seed, rng, fCalls,
                   rkCalls, draws, err, run, prevEnsemble>>

\* The caller reseeds the random stream and calls plot_samples again with the same
\* arguments (the widget redraws), keeping the first ensemble for comparison.
CallAgain ==
    /\ pc = "done"
    /\ mode = "propagate"
    /\ run = 1
    /\ fault.kind = "none"
    /\ prevEnsemble' = ensemble
    /\ rng' = seed
    /\ run' = 2
    /\ rkCalls' = 0
    /\ draws' = 0
    /\ pc' = "ps_entry"
    /\ UNCHANGED <<twin, mode, fault, f, y0, t, args, n, y, i, h, k, y5, ret, returned, mu,
                   sig, num_samples, sample, xi, kappa, ensemble, seed, fCalls, err>>

\* ------------------------------------------------------------ the calls made
NoFault == [kind |-> "none", sample |-> 0, at |-> 0]

Faults(kinds, samples) ==
    {NoFault} \cup [kind : kinds, sample : samples, at : 1..MaxFaultAt]

\* time grids of a direct call: every sequence of at most MaxGridLen points
Grids == UNION {[1..len -> 0..MaxT] : len \in 0..MaxGridLen}

\* rate vectors of a direct call of the catalysis model: all positive
Kappas == {<<1, 2, 3, 4, 5>>,
           <<Frac(1, 10), Frac(2, 10), Frac(3, 10), Frac(1, 100), Frac(7, 100)>>}

\* right-hand sides, initial states and extra arguments of a direct call:
\* the catalysis model, and a right-hand side of every shape against an initial
\* state of every length (faults only where the shapes agree)
DirectCalls ==
    [f : {[kind |-> "catalysis", shape |-> 6]},
     y0 : {InitialState, <<1, 2, 3, 4, 5, 6>>},
     args : {<<kap>> : kap \in Kappas},
     fault : Faults({"nan"}, {1})]
    \cup
    UNION {[f : {[kind |-> "env", shape |-> sd[1]]},
            y0 : {[c \in 1..sd[2] |-> c]},
            args : {<<>>},
            fault : IF sd[1] = sd[2] THEN Faults({"raise", "nan"}, {1})
                    ELSE {NoFault}] :
              sd \in (0..MaxDim) \X (1..MaxDim)}

InitDirect ==
    /\ mode = "direct"
    /\ \E c \in DirectCalls :
          /\ f = c.f
          /\ y0 = c.y0
          /\ args = c.args
          /\ fault = c.fault
    /\ t \in Grids
    /\ mu = <<>> /\ sig = <<>> /\ num_samples = 0
    /\ seed = 0 /\ rng = 0
    /\ rkCalls = 1
    /\ pc = "rk_entry"

InitPropagate ==
    /\ mode = "propagate"
    /\ f = [kind |-> "catalysis", shape |-> 6]
    /\ y0 = <<>> /\ args = <<>> /\ t = <<>>
    /\ \E m \in {<<DefaultMu, DefaultSig>>, <<SliderMu, SliderSig>>} :
          mu = m[1] /\ sig = m[2]
    /\ num_samples \in -1..MaxSamples
    /\ fault \in Faults({"raise"}, 1..num_samples)
    /\ seed \in 0..MaxSeed
    /\ rng = seed
    /\ rkCalls = 0
    /\ pc = "ps_entry"

Init ==
    /\ InitDirect \/ InitPropagate
    /\ n = 0 /\ y = <<>> /\ i = 0 /\ h = 0 /\ k = <<>> /\ y5 = Vec(<<>>)
    /\ ret = <<>> /\ returned = FALSE
    /\ sample = 0 /\ xi = <<>> /\ kappa = <<>> /\ ensemble = <<>>
    /\ fCalls = 0 /\ draws = 0
    /\ err = "none"
    /\ run = 1 /\ prevEnsemble = <<>>
    /\ twin = [y |-> <<>>, k |-> <<>>, y5 |-> Vec(<<>>)]

Next ==
    \/ RkEntry
    \/ RkLoop
    \/ \E s \in 1..6 : RkStage(s)
    \/ RkUpdate
    \/ RkReturn
    \/ PsEntry
    \/ PsLoop
    \/ \E j \in 1..5 : PsDraw(j)
    \/ PsRates
    \/ PsCall
    \/ PsPlot
    \/ PsLegend
    \/ CallAgain

Spec == Init /\ [][Next]_vars

\* A call of rk45 made by the caller directly, on its own: the steps of rk45.  The
\* interpreter runs the call to its end: a step that can be taken is taken.
rk45 ==
    \/ RkEntry
    \/ RkLoop
    \/ \E s \in 1..6 : RkStage(s)
    \/ RkUpdate
    \/ RkReturn

InitRk == Init /\ mode = "direct"

RkSpec == InitRk /\ [][rk45]_vars /\ WF_vars(rk45)

\* ------------------------------------------------------------ properties
RkBody == {"rk_loop", "rk_stage", "rk_update", "rk_return"}

RECURSIVE RowSum(_)
RowSum(r) == IF r = <<>> THEN 0 ELSE FAdd(Head(r), RowSum(Tail(r)))

\* C1 as stated: whenever rk45 has returned, entry 0 of the returned trajectory is
\* the initial state y0, for any time grid.
CE_C1 == returned => (Len(ret) >= 1 /\ ret[1] = y0)

\* C1, amended: for a time grid of at least one point, row 0 of the trajectory is
\* y0 from its allocation on (no step writes it) and entry 0 of the returned
\* trajectory is y0; for the empty grid the returned trajectory has no entry.
Thm_C1 ==
    /\ (pc \in RkBody /\ n >= 1) => y[1] = y0
    /\ returned => IF Len(t) >= 1 THEN ret[1] = y0 ELSE ret = <<>>

Wit_C1 == returned /\ Len(t) = 3 /\ ret[1] = y0 /\ ret[2] # y0 /\ ret[3] # ret[2]

\* C2: a propagation that completes with num_samples = N >= 1 has produced exactly
\* N trajectories by exactly N calls of rk45, and every trajectory rk45 returns has
\* as many entries as the time grid has points.
Thm_C2 ==
    /\ (mode = "propagate" /\ pc = "done" /\ num_samples >= 1) =>
          /\ Len(ensemble) = num_samples
          /\ rkCalls = num_samples
          /\ \A j \in 1..Len(ensemble) : Len(ensemble[j]) = Len(t)
    /\ returned => Len(ret) = Len(t)

Wit_C2 ==
    /\ mode = "propagate" /\ pc = "done" /\ num_samples = 2
    /\ Len(ensemble) = 2 /\ Len(ensemble[2]) = NumPoints

\* C3 as stated: rk45 returns no trajectory for a time grid of fewer than two points.
CE_C3 == (mode = "direct" /\ Len(t) < 2) => ~returned

\* C3, amended: for a time grid of fewer than two points rk45 signals no error and
\* never evaluates f; it returns a trajectory of len(t) entries: none for the empty
\* grid, the single entry y0 for a grid of one point.
Thm_C3 ==
    (mode = "direct" /\ Len(t) < 2) =>
        /\ err = "none"
        /\ fCalls = 0
        /\ pc \in {"rk_entry", "rk_loop", "rk_return", "done"}
        /\ returned => ret = [j \in 1..Len(t) |-> y0]

Wit_C3 == mode = "direct" /\ Len(t) = 1 /\ pc = "done" /\ returned /\ ret = <<y0>>

\* the grid of a direct call is not strictly increasing
NotIncreasing(tt) == \E j \in 1..(Len(tt) - 1) : tt[j + 1] <= tt[j]

\* f returns what the docstring asks for and raises nothing
WellBehaved == fault.kind # "raise" /\ f.shape = Len(y0)

\* C4 as stated: rk45 never returns a trajectory for a grid that is not strictly
\* increasing.
CE_C4 == (mode = "direct" /\ NotIncreasing(t)) => ~returned

\* C4, amended: a grid that is not strictly increasing is no error: every step uses
\* h = t[i+1] - t[i] as given, zero or negative, and rk45 returns a trajectory of
\* len(t) entries.
Thm_C4 ==
    (mode = "direct" /\ NotIncreasing(t) /\ WellBehaved) =>
        /\ err = "none"
        /\ pc \in {"rk_stage", "rk_update"} => h = (t[i + 2] - t[i + 1]) % P
        /\ returned => Len(ret) = Len(t)

Wit_C4 ==
    /\ mode = "direct" /\ t = <<0, 1, 0>> /\ WellBehaved
    /\ pc = "done" /\ returned /\ h = P - 1 /\ ret[3] # ret[2]

\* the length of y0 and the length of what f returns differ
Mismatch ==
    /\ f.kind = "env"
    /\ \/ f.shape = 0 /\ Len(y0) > 1
       \/ f.shape >= 1 /\ f.shape # Len(y0)

CE_C6 == (mode = "propagate" /\ num_samples < 1) => pc # "done"

\* C6, amended: with num_samples < 1 the propagator signals no error: the loop body
\* never runs (no draw, no call of rk45) and the call completes normally with an
\* empty ensemble.
Thm_C6 ==
    (mode = "propagate" /\ num_samples < 1) =>
        /\ err = "none"
        /\ draws = 0 /\ rkCalls = 0 /\ ensemble = <<>>
        /\ pc \in {"ps_entry", "ps_loop", "ps_legend", "done"}

Wit_C6 ==
    /\ mode = "propagate" /\ num_samples = -1 /\ pc = "done" /\ run = 2
    /\ ensemble = <<>>

\* C7: when f raises inside the rk45 call of sample j, plot_samples ends there with
\* the exception: the samples before j are on the axes and nothing else (sample j
\* is neither plotted nor skipped), exactly the 5 * j draws of samples 1..j were
\* made and exactly j calls of rk45, and the call never completes normally.
Thm_C7 ==
    (mode = "propagate" /\ err # "none") =>
        /\ pc = "raised"
        /\ err = "FError"
        /\ ~returned
        /\ rkCalls = fault.sample
        /\ sample = fault.sample - 1
        /\ Len(ensemble) = fault.sample - 1
        /\ draws = 5 * fault.sample

Wit_C7 ==
    /\ mode = "propagate" /\ num_samples = 2 /\ fault.sample = 2
    /\ pc = "raised" /\ err = "FError" /\ Len(ensemble) = 1 /\ draws = 10

\* C8: a second propagation with the same arguments and the random stream reseeded
\* to the same seed builds the same ensemble as the first, trajectory for
\* trajectory and entry for entry.
Thm_C8 ==
    (mode = "propagate" /\ run = 2) =>
        /\ pc \notin {"ps_entry", "done"} =>
              /\ Len(ensemble) <= Len(prevEnsemble)
              /\ \A j \in 1..Len(ensemble) : ensemble[j] = prevEnsemble[j]
        /\ pc = "done" => ensemble = prevEnsemble

Wit_C8 ==
    /\ mode = "propagate" /\ run = 2 /\ pc = "done"
    /\ Len(ensemble) = 2 /\ ensemble[1] # ensemble[2] /\ ensemble = prevEnsemble

\* the sum of the five observed components of a state (all but X, the third)
ObservedSum(r) == FAdd(FAdd(FAdd(FAdd(r[1], r[2]), r[4]), r[5]), r[6])

CatalysisRun == f.kind = "catalysis" /\ fault.kind # "nan"

\* C9 as stated: along a trajectory rk45 computes for f_catalysis the sum of the six
\* components changes: some entry has a sum other than that of the initial state.
CE_C9 ==
    (CatalysisRun /\ returned /\ Len(ret) >= 2 /\ ret[2] # ret[1]) =>
        \E j \in 1..Len(ret) : RowSum(ret[j]) # RowSum(y0)

\* C9, amended: for f_catalysis the sum of the six components IS conserved by rk45
\* in exact arithmetic (in the notebook's floating point: up to rounding): the six
\* derivatives sum to zero, and every entry of the trajectory, when it is stored
\* and when it is returned, has the sum of the initial state.  There is no sink among the six components; what changes is the
\* sum of the five observed ones (X left out).
Thm_C9 ==
    /\ (CatalysisRun /\ pc \in RkBody /\ i < n) => RowSum(y[i + 1]) = RowSum(y0)
    /\ (CatalysisRun /\ returned /\ pc \in {"ps_plot", "done"}) =>
          \A j \in 1..Len(ret) : RowSum(ret[j]) = RowSum(y0)

Wit_C9 ==
    /\ mode = "direct" /\ CatalysisRun /\ returned /\ Len(ret) = 3
    /\ ret[2] # ret[1] /\ ret[3] # ret[2]
    /\ RowSum(ret[3]) = RowSum(y0)
    /\ ObservedSum(ret[3]) # ObservedSum(y0)

\* the fault made f return a non-finite value in evaluation s of step q
NanIn(q, s) == fault.kind = "nan" /\ fault.at = 6 * (q - 1) + s

\* C10 as stated: rk45 never returns a trajectory that holds a non-finite entry.
CE_C10 ==
    (mode = "direct" /\ returned) =>
        \A j \in 1..Len(ret) : \A c \in 1..Len(ret[j]) : IsFinite(ret[j][c])

\* C10, amended: a non-finite value that f produces is never reported: rk45 raises
\* no error for it.  Produced in stage k1, k3, k4 or k5 of a step it enters the
\* trajectory entry that step stores, and rk45 returns normally with a trajectory
\* that holds it.
Thm_C10 ==
    (mode = "direct" /\ fault.kind = "nan") =>
        /\ err = "none"
        /\ \A q \in 1..(Len(t) - 1) : \A s \in {1, 3, 4, 5} :
              /\ (NanIn(q, s) /\ pc \in RkBody /\ i >= q) => ~IsFinite(y[q + 1][1])
              /\ (NanIn(q, s) /\ returned) => ~IsFinite(ret[q + 1][1])

Wit_C10 ==
    /\ mode = "direct" /\ NanIn(1, 4) /\ pc = "done" /\ returned /\ err = "none"
    /\ Len(t) = 3
    /\ ~IsFinite(ret[2][1]) /\ IsFinite(ret[1][1])

\* the number of steps rk45 takes on a grid of m points
NumSteps(m) == Max(m - 1, 0)

\* k_s as the source computes it from entry i, the stages before it, h and args
ExpectedStage(s) ==
    SMul(h, Apply(f, StageArg(s, Vec(y[i + 1]), SubSeq(k, 1, s - 1)),
                  StageTime(s, t[i + 1], h), args))

\* C11 as stated: a call that returns on a grid of m points has evaluated f exactly
\* 6 * (m - 1) times.
CE_C11 == (mode = "direct" /\ returned) => fCalls = 6 * (Len(t) - 1)

\* C11, amended (safety part): on a grid of m >= 1 points rk45 takes exactly m - 1
\* steps, i = 0, 1, .. in increasing order (none on the empty grid); step i uses
\* h = t[i+1] - t[i] and evaluates f six times, k1..k6 in that order, each on entry
\* i, the stages before it and the same args; entry i+1 is the 4th order estimate
\* from entry i and these stages, the entries after it still untouched; no step is
\* repeated, so f has been evaluated 6 * i times when step i begins and
\* 6 * (m - 1) times when rk45 returns.
Steps_C11 ==
    /\ (WellBehaved /\ pc \in RkBody) =>
          /\ n = Len(t)
          /\ i >= 0 /\ i <= NumSteps(n)
          /\ \A j \in (i + 2)..n : y[j] = y0
          /\ pc = "rk_loop" =>
                /\ fCalls = 6 * i
                /\ i >= 1 => y[i + 1] = StoreRow(Order4(Vec(y[i]), k), Len(y0))
          /\ pc = "rk_stage" =>
                /\ i < n - 1
                /\ Len(k) <= 5
                /\ fCalls = 6 * i + Len(k)
                /\ h = FSub(t[i + 2], t[i + 1])
                /\ (fault.kind = "none" /\ Len(k) >= 1) =>
                      k[Len(k)] = ExpectedStage(Len(k))
          /\ pc = "rk_update" =>
                /\ i < n - 1
                /\ Len(k) = 6
                /\ fCalls = 6 * i + 6
                /\ h = FSub(t[i + 2], t[i + 1])
                /\ fault.kind = "none" => k[6] = ExpectedStage(6)
          /\ pc = "rk_return" => (i = NumSteps(n) /\ fCalls = 6 * NumSteps(n))
    /\ (WellBehaved /\ returned /\ pc \in {"ps_plot", "done"}) =>
          fCalls = 6 * NumSteps(Len(t))

\* C11, amended: the safety part, and the loop terminates: a call of rk45 that has
\* begun reaches its return statement or ends with an exception.
Thm_C11 ==
    /\ []Steps_C11
    /\ (pc = "rk_entry") ~> (pc \in {"rk_return", "raised"})

Wit_C11 ==
    /\ mode = "direct" /\ WellBehaved /\ fault.kind = "none" /\ Len(t) = 3
    /\ pc = "done" /\ returned /\ fCalls = 12 /\ i = 2 /\ ret[3] # ret[2]

\* C12: the 5th order estimate is computed and never used.  Take a second run of the
\* same rk45 call in which f returns another value at the sixth evaluation of every
\* step (twin): k1..k5 and the trajectory of the two runs agree at every point of
\* the call, and the two runs return identical trajectories, whatever k6 and y5 are.
Thm_C12 ==
    /\ pc \in RkBody =>
          /\ twin.y = y
          /\ Len(twin.k) = Len(k)
          /\ \A s \in 1..Len(k) : s # 6 => twin.k[s] = k[s]
    /\ (returned /\ pc \in {"ps_plot", "done"}) => ret = twin.y

Wit_C12 ==
    /\ mode = "direct" /\ pc = "done" /\ returned /\ Len(t) = 3
    /\ Len(k) = 6 /\ twin.k[6] # k[6] /\ twin.y5 # y5
    /\ ret = twin.y /\ ret[3] # ret[1]

\* the state of the random stream after p draws
RECURSIVE RngAt(_, _)
RngAt(r, p) == IF p = 0 THEN r ELSE RngAt(RngNext(r), p - 1)

\* xi1..xi5 of the q-th sample, q = 1, 2, ..: the five draws 5(q-1)+1 .. 5q of the
\* stream, the j-th of them from the j-th marginal
XiOf(q) == [j \in 1..5 |-> NormRvs(mu[j], sig[j], RngAt(seed, 5 * (q - 1) + j - 1))]

\* k1..ks of the first step of the integration of the q-th sample
RECURSIVE FirstStages(_, _)
FirstStages(q, s) ==
    IF s = 0 THEN <<>>
    ELSE LET kk == FirstStages(q, s - 1)
             hh == StepSize(TimeGrid, 0)
         IN Append(kk, SMul(hh, f_catalysis(StageArg(s, Vec(InitialState), kk),
                                            StageTime(s, TimeGrid[1], hh),
                                            Rates(XiOf(q)))))

\* entry 1 of the trajectory of the q-th sample
FirstEntry(q) == StoreRow(Order4(Vec(InitialState), FirstStages(q, 5)), 6)

PsBody == {"ps_loop", "ps_draw", "ps_rates", "ps_call", "ps_plot", "ps_legend"}

\* C13: sampling is sequential.  Sample i (sample = i - 1 while it is worked on)
\* draws xi1..xi5 in this order, one value from each marginal, the draws 5(i-1)+1 ..
\* 5i of the stream; then it is integrated by one call of rk45, the i-th, on the
\* rates of exactly these draws; no draw happens during the call, and the draws of
\* sample i+1 begin after it returned and its lines were plotted; the i-th
\* trajectory on the axes is the one of the i-th parameter draw.
Thm_C13 ==
    (mode = "propagate" /\ pc \in PsBody \cup RkBody \cup {"rk_entry", "done"}) =>
       /\ Len(ensemble) = sample
       /\ pc \in {"ps_loop", "ps_legend", "done"} =>
             (draws = 5 * sample /\ rkCalls = sample)
       /\ pc = "ps_draw" =>
             /\ Len(xi) <= 4
             /\ draws = 5 * sample + Len(xi)
             /\ rkCalls = sample
       /\ pc \in {"ps_draw", "ps_rates", "ps_call", "ps_plot", "rk_entry"} \cup RkBody =>
             \A j \in 1..Len(xi) : xi[j] = XiOf(sample + 1)[j]
       /\ pc \in {"ps_rates", "ps_call"} =>
             (Len(xi) = 5 /\ draws = 5 * (sample + 1) /\ rkCalls = sample)
       /\ pc \in {"ps_call", "ps_plot", "rk_entry"} \cup RkBody =>
             kappa = Rates(XiOf(sample + 1))
       /\ pc \in {"ps_plot", "rk_entry"} \cup RkBody =>
             /\ draws = 5 * (sample + 1)
             /\ rkCalls = sample + 1
             /\ args = <<kappa>>
       /\ pc = "ps_plot" => (returned /\ ret[2] = FirstEntry(sample + 1))
       /\ pc = "ps_loop" => \A q \in 1..sample : ensemble[q][2] = FirstEntry(q)

Wit_C13 ==
    /\ mode = "propagate" /\ pc = "ps_loop" /\ sample = 2
    /\ draws = 10 /\ rkCalls = 2
    /\ ensemble[1] # ensemble[2]
    /\ XiOf(1) # XiOf(2)
====
